---- MODULE Spec2Model ----
(***************************************************************************)
(* pycalc-tk: the calculation engine (core.py) and the Tk front end        *)
(* (gui.py) as a state machine.                                            *)
(*                                                                         *)
(* A Decimal is the triple the decimal module keeps: a sign, the           *)
(* coefficient as its sequence of decimal digits, and an exponent.         *)
(* Coefficients are digit sequences, not machine integers, because the     *)
(* program's precisions (16 .. 1000 digits and more) exceed any machine    *)
(* integer.  Strings are sequences of one-character strings.               *)
(***************************************************************************)
EXTENDS Integers, Sequences, FiniteSets, TLC

(***************************************************************************)
(* Program constants.                                                      *)
(***************************************************************************)
DEFAULT_PRECISION == 1000
MIN_PRECISION == 16
DEFAULT_MAX_DEPTH == 64
ROUND_HALF_EVEN == "ROUND_HALF_EVEN"

(***************************************************************************)
(* Digit sequences (unbounded naturals).                                   *)
(***************************************************************************)
DigitChars == <<"0", "1", "2", "3", "4", "5", "6", "7", "8", "9">>
IsDigitChar(c) == \E d \in 1..10 : DigitChars[d] = c
DigitOf(c) == (CHOOSE d \in 1..10 : DigitChars[d] = c) - 1
CharOf(d) == DigitChars[d + 1]

\* A sequence given as a function over 1..n, as a tuple.
AsTuple(f) == <<>> \o f
Zeros(n) == AsTuple([i \in 1..n |-> 0])
AllZero(ds) == \A i \in 1..Len(ds) : ds[i] = 0
FirstNonZero(ds) ==
    CHOOSE k \in 1..Len(ds) : ds[k] # 0 /\ \A m \in 1..(k - 1) : ds[m] = 0
LastNonZero(ds) ==
    CHOOSE k \in 1..Len(ds) : ds[k] # 0 /\ \A m \in (k + 1)..Len(ds) : ds[m] = 0
\* str(int(digits)): no leading zeros, "0" for zero.
StripLeading(ds) ==
    IF AllZero(ds) THEN <<0>> ELSE SubSeq(ds, FirstNonZero(ds), Len(ds))
PadLeft(ds, n) == Zeros(n - Len(ds)) \o ds
MaxOf(a, b) == IF a >= b THEN a ELSE b
MinOf(a, b) == IF a <= b THEN a ELSE b

\* a < b for digit sequences of equal length.
LessEq(a, b) ==
    \/ a = b
    \/ LET k == CHOOSE i \in 1..Len(a) : a[i] # b[i] /\ \A m \in 1..(i - 1) : a[m] = b[m]
       IN a[k] < b[k]

\* Carry into position i of the digit-wise sums s: decided by the nearest
\* less significant position whose sum is not 9.
CarryInto(s, i) ==
    IF \A j \in (i + 1)..Len(s) : s[j] = 9 THEN 0
    ELSE LET j == CHOOSE j \in (i + 1)..Len(s) :
                      s[j] # 9 /\ \A m \in (i + 1)..(j - 1) : s[m] = 9
         IN IF s[j] >= 10 THEN 1 ELSE 0

\* a + b on naturals.
AddNat(a, b) ==
    LET n == MaxOf(Len(a), Len(b))
        x == PadLeft(a, n)
        y == PadLeft(b, n)
        s == AsTuple([i \in 1..n |-> x[i] + y[i]])
        r == AsTuple([i \in 1..n |-> (s[i] + CarryInto(s, i)) % 10])
    IN StripLeading(<<CarryInto(s, 0)>> \o r)

\* Borrow into position i of the digit-wise differences d.
BorrowInto(d, i) ==
    IF \A j \in (i + 1)..Len(d) : d[j] = 0 THEN 0
    ELSE LET j == CHOOSE j \in (i + 1)..Len(d) :
                      d[j] # 0 /\ \A m \in (i + 1)..(j - 1) : d[m] = 0
         IN IF d[j] < 0 THEN 1 ELSE 0

\* a - b on naturals, for a >= b.
SubNat(a, b) ==
    LET n == MaxOf(Len(a), Len(b))
        x == PadLeft(a, n)
        y == PadLeft(b, n)
        d == AsTuple([i \in 1..n |-> x[i] - y[i]])
        r == AsTuple([i \in 1..n |-> (d[i] - BorrowInto(d, i) + 10) % 10])
    IN StripLeading(r)

\* a * d for one digit d, by doubling.
MulDigit(a, d) ==
    LET a2 == AddNat(a, a)
        a4 == AddNat(a2, a2)
        a8 == AddNat(a4, a4)
    IN CASE d = 0 -> <<0>>
         [] d = 1 -> StripLeading(a)
         [] d = 2 -> a2
         [] d = 3 -> AddNat(a2, a)
         [] d = 4 -> a4
         [] d = 5 -> AddNat(a4, a)
         [] d = 6 -> AddNat(a4, a2)
         [] d = 7 -> SubNat(a8, a)
         [] d = 8 -> a8
         [] d = 9 -> AddNat(a8, a)

\* a * b on naturals (schoolbook); the recursion runs over the digits of b,
\* which the callers choose as the shorter operand.
RECURSIVE MulNat(_, _)
MulNat(a, b) ==
    IF Len(b) = 0 THEN <<0>>
    ELSE AddNat(MulDigit(a, b[Len(b)]),
                StripLeading(MulNat(a, SubSeq(b, 1, Len(b) - 1)) \o <<0>>))

\* Small naturals as machine integers and back.
RECURSIVE NatOf(_)
NatOf(ds) == IF Len(ds) = 0 THEN 0 ELSE 10 * NatOf(SubSeq(ds, 1, Len(ds) - 1)) + ds[Len(ds)]
RECURSIVE DigitsOf(_)
DigitsOf(n) == IF n < 10 THEN <<n>> ELSE DigitsOf(n \div 10) \o <<n % 10>>
RECURSIVE Pow10(_)
Pow10(k) == IF k = 0 THEN 1 ELSE 10 * Pow10(k - 1)
(***************************************************************************)
(* Decimal values and the decimal module's arithmetic, under a context     *)
(* [prec, rounding].  Every reachable context rounds half to even.         *)
(***************************************************************************)
Dec(sign, int, exp) == [sign |-> sign, int |-> int, exp |-> exp]
IsZero(d) == d.int = <<0>>
Context(prec, rounding) == [prec |-> prec, rounding |-> rounding]

\* Outcomes of an operation: a value, or the exception it raises.
Ok(v) == [ok |-> TRUE, val |-> v, exc |-> "", msg |-> ""]
Raise(exc, msg) == [ok |-> FALSE, val |-> Dec(0, <<0>>, 0), exc |-> exc, msg |-> msg]

\* Decimal._fix: round the coefficient to ctx.prec digits, half to even.
Fix(d, ctx) ==
    IF Len(d.int) <= ctx.prec THEN d
    ELSE LET p == ctx.prec
             kept == SubSeq(d.int, 1, p)
             nxt == d.int[p + 1]
             restZero == \A i \in (p + 2)..Len(d.int) : d.int[i] = 0
             up == \/ nxt > 5
                   \/ nxt = 5 /\ ~restZero
                   \/ nxt = 5 /\ restZero /\ kept[p] % 2 = 1
             inc == IF up THEN AddNat(kept, <<1>>) ELSE kept
             e == d.exp + Len(d.int) - p
         IN IF Len(inc) > p THEN Dec(d.sign, SubSeq(inc, 1, p), e + 1)
            ELSE Dec(d.sign, inc, e)

\* Decimal.copy_negate, Decimal.copy_abs, Decimal.__neg__.
CopyNegate(d) == Dec(1 - d.sign, d.int, d.exp)
CopyAbs(d) == Dec(0, d.int, d.exp)
Neg(d, ctx) == Fix(IF IsZero(d) THEN CopyAbs(d) ELSE CopyNegate(d), ctx)

\* Decimal.__add__: align the exponents, add or subtract the coefficients.
DecAdd(a, b, ctx) ==
    LET e == MinOf(a.exp, b.exp)
        x == a.int \o Zeros(a.exp - e)
        y == b.int \o Zeros(b.exp - e)
        n == MaxOf(Len(x), Len(y))
        px == PadLeft(x, n)
        py == PadLeft(y, n)
    IN IF IsZero(a) /\ IsZero(b)
       THEN Fix(Dec(MinOf(a.sign, b.sign), <<0>>, e), ctx)
       ELSE IF a.sign = b.sign THEN Fix(Dec(a.sign, AddNat(x, y), e), ctx)
       ELSE IF px = py THEN Fix(Dec(0, <<0>>, e), ctx)
       ELSE IF LessEq(px, py) THEN Fix(Dec(b.sign, SubNat(y, x), e), ctx)
       ELSE Fix(Dec(a.sign, SubNat(x, y), e), ctx)

\* Decimal.__sub__.
DecSub(a, b, ctx) == DecAdd(a, CopyNegate(b), ctx)

\* Decimal.__mul__.
DecMul(a, b, ctx) ==
    LET sign == (a.sign + b.sign) % 2
        e == a.exp + b.exp
    IN IF IsZero(a) \/ IsZero(b) THEN Fix(Dec(sign, <<0>>, e), ctx)
       ELSE IF Len(a.int) >= Len(b.int) THEN Fix(Dec(sign, MulNat(a.int, b.int), e), ctx)
       ELSE Fix(Dec(sign, MulNat(b.int, a.int), e), ctx)

\* Long division of the digits ds by a machine-size divisor B, entered with
\* remainder r: the remainder after each digit.
RECURSIVE RemSeq(_, _, _)
RemSeq(r, ds, B) ==
    IF Len(ds) = 0 THEN <<>>
    ELSE IF r = 0 /\ AllZero(ds) THEN ds
    ELSE IF Len(ds) <= 4
    THEN LET at(i) == IF i <= Len(ds) THEN ds[i] ELSE 0
             r1 == (10 * r + at(1)) % B
             r2 == (10 * r1 + at(2)) % B
             r3 == (10 * r2 + at(3)) % B
             r4 == (10 * r3 + at(4)) % B
         IN SubSeq(<<r1, r2, r3, r4>>, 1, Len(ds))
    ELSE LET h == Len(ds) \div 2
             first == RemSeq(r, SubSeq(ds, 1, h), B)
             second == RemSeq(first[h], SubSeq(ds, h + 1, Len(ds)), B)
         IN first \o second
\* divmod(ds, B) as [q, r].
DivModNat(ds, B) ==
    LET rems == RemSeq(0, ds, B)
        prev(i) == IF i = 1 THEN 0 ELSE rems[i - 1]
    IN [q |-> StripLeading(AsTuple([i \in 1..Len(ds) |-> (10 * prev(i) + ds[i]) \div B])),
        r |-> rems[Len(ds)]]

\* Decimal.__truediv__ for a nonzero divisor: the quotient of the
\* coefficients to ctx.prec + 1 digits (the dividend shifted left by shift
\* digits, or the divisor by -shift), a sticky last digit when the
\* division is inexact, else the trailing zeros dropped down to the ideal
\* exponent; then _fix.  The divisor's coefficient is machine-size (every
\* division the model evaluates has such a divisor).
DecDiv(a, b, ctx) ==
    LET sign == (a.sign + b.sign) % 2
        shift == Len(b.int) - Len(a.int) + ctx.prec + 1
        num == IF shift >= 0 THEN a.int \o Zeros(shift)
               ELSE SubSeq(a.int, 1, Len(a.int) + shift)
        dropped == IF shift >= 0 THEN <<>>
                   ELSE SubSeq(a.int, Len(a.int) + shift + 1, Len(a.int))
        dm == DivModNat(num, NatOf(b.int))
        q == dm.q
        e == a.exp - b.exp - shift
        last == q[Len(q)]
        sticky == IF last % 5 = 0
                  THEN SubSeq(q, 1, Len(q) - 1) \o <<last + 1>> ELSE q
        strip == IF AllZero(q) THEN 0
                 ELSE MinOf(Len(q) - LastNonZero(q), MaxOf(shift, 0))
    IN IF IsZero(a) THEN Fix(Dec(sign, <<0>>, a.exp - b.exp), ctx)
       ELSE IF dm.r # 0 \/ ~AllZero(dropped) THEN Fix(Dec(sign, sticky, e), ctx)
       ELSE Fix(Dec(sign, SubSeq(q, 1, Len(q) - strip), e + strip), ctx)

\* Decimal.__mod__ for a nonzero divisor: the remainder of the integer
\* division at the smaller exponent, with the sign of the dividend; the
\* division is impossible when its integer quotient has more than ctx.prec
\* digits (machine-size divisor).
DecMod(a, b, ctx) ==
    LET e == MinOf(a.exp, b.exp)
        dm == DivModNat(a.int \o Zeros(a.exp - e), NatOf(b.int) * Pow10(b.exp - e))
    IN IF Len(dm.q) > ctx.prec THEN Raise("InvalidOperation", "DivisionImpossible")
       ELSE Ok(Fix(Dec(a.sign, DigitsOf(dm.r), e), ctx))

\* Decimal.__pow__ for a positive integer base and a positive integer
\* exponent whose power is exact (machine-size coefficients).
DecPow(a, b, ctx) ==
    Fix(Dec(IF a.sign = 1 /\ NatOf(b.int) % 2 = 1 THEN 1 ELSE 0,
            DigitsOf(NatOf(a.int) ^ NatOf(b.int)), 0), ctx)

\* Decimal == 0.
EqualsZero(d) == IsZero(d)

\* Decimal.normalize: _fix, then drop the coefficient's trailing zeros.
Normalize(d, ctx) ==
    LET dup == Fix(d, ctx)
        k == LastNonZero(dup.int)
    IN IF IsZero(dup) THEN Dec(dup.sign, <<0>>, 0)
       ELSE Dec(dup.sign, SubSeq(dup.int, 1, k), dup.exp + Len(dup.int) - k)

(***************************************************************************)
(* Strings: Decimal(str), str(int) and format(d, "f").                     *)
(***************************************************************************)
CharsOf(ds) == AsTuple([i \in 1..Len(ds) |-> CharOf(ds[i])])
DigitsIn(cs) == AsTuple([i \in 1..Len(cs) |-> DigitOf(cs[i])])
AllDigitChars(cs) == \A i \in 1..Len(cs) : IsDigitChar(cs[i])
DotPlace(cs) == IF \E i \in 1..Len(cs) : cs[i] = "."
                THEN CHOOSE i \in 1..Len(cs) : cs[i] = "." /\ \A m \in 1..(i - 1) : cs[m] # "."
                ELSE 0

\* Decimal(s) for a string: [sign] digits [. digits]; anything else is a
\* conversion syntax error (InvalidOperation is trapped by every context).
DecimalFromString(cs) ==
    LET neg == Len(cs) > 0 /\ cs[1] = "-"
        signed == Len(cs) > 0 /\ cs[1] \in {"-", "+"}
        body == IF signed THEN SubSeq(cs, 2, Len(cs)) ELSE cs
        dot == DotPlace(body)
        ip == IF dot = 0 THEN body ELSE SubSeq(body, 1, dot - 1)
        fp == IF dot = 0 THEN <<>> ELSE SubSeq(body, dot + 1, Len(body))
    IN IF AllDigitChars(ip) /\ AllDigitChars(fp) /\ Len(ip) + Len(fp) > 0
       THEN Ok(Dec(IF neg THEN 1 ELSE 0, StripLeading(DigitsIn(ip \o fp)), 0 - Len(fp)))
       ELSE Raise("InvalidOperation", "ConversionSyntax")

\* format(d, "f"): sign, integer part, and "." with the fraction if any.
FormatF(d) ==
    LET dotplace == d.exp + Len(d.int)
        intpart == IF dotplace <= 0 THEN <<0>>
                   ELSE IF dotplace > Len(d.int) THEN d.int \o Zeros(dotplace - Len(d.int))
                   ELSE SubSeq(d.int, 1, dotplace)
        fracpart == IF dotplace < 0 THEN Zeros(0 - dotplace) \o d.int
                    ELSE IF dotplace > Len(d.int) THEN <<>>
                    ELSE SubSeq(d.int, dotplace + 1, Len(d.int))
    IN (IF d.sign = 1 THEN <<"-">> ELSE <<>>)
       \o CharsOf(intpart)
       \o (IF Len(fracpart) > 0 THEN <<".">> \o CharsOf(fracpart) ELSE <<>>)

\* s.rstrip(c).
RStrip(cs, c) ==
    IF \A i \in 1..Len(cs) : cs[i] = c THEN <<>>
    ELSE SubSeq(cs, 1, CHOOSE k \in 1..Len(cs) :
                           cs[k] # c /\ \A m \in (k + 1)..Len(cs) : cs[m] = c)

(***************************************************************************)
(* Expressions.  The text handed to evaluate is kept as its phrase         *)
(* structure (literal tokens, names, parentheses, operators, calls);       *)
(* ast.parse maps it to the syntax tree the evaluator walks.  Every node   *)
(* is a record [k, op, text, kids, kw].                                    *)
(***************************************************************************)
Node(k, op, text, kids, kw) == [k |-> k, op |-> op, text |-> text, kids |-> kids, kw |-> kw]

\* Source phrases.
SNum(text) == Node("num", "", text, <<>>, 0)
SStr(text) == Node("str", "", text, <<>>, 0)
SName(id) == Node("name", id, <<>>, <<>>, 0)
SParen(e) == Node("paren", "", <<>>, <<e>>, 0)
SUnary(op, e) == Node("unary", op, <<>>, <<e>>, 0)
SBinary(l, op, r) == Node("binary", op, <<>>, <<l, r>>, 0)
SCall(f, args, kw) == Node("call", f, <<>>, args, kw)
SList(items) == Node("list", "", <<>>, items, 0)
SCompare(l, op, r) == Node("compare", op, <<>>, <<l, r>>, 0)
SEmpty == Node("empty", "", <<>>, <<>>, 0)
SInvalid == Node("invalid", "", <<>>, <<>>, 0)

BinOpClass(tok) ==
    CASE tok = "+" -> "Add" [] tok = "-" -> "Sub" [] tok = "*" -> "Mult"
      [] tok = "/" -> "Div" [] tok = "%" -> "Mod" [] tok = "**" -> "Pow"
      [] tok = "^" -> "BitXor" [] tok = "//" -> "FloorDiv"
UnaryOpClass(tok) ==
    CASE tok = "+" -> "UAdd" [] tok = "-" -> "USub"
      [] tok = "~" -> "Invert" [] tok = "not" -> "Not"

\* ast.parse(expr, mode="eval").body for a well-formed phrase.  A literal
\* with a decimal point is a float constant, one without is an int constant
\* (kept as str(int)); parentheses leave no node.
RECURSIVE ToAst(_)
ToAst(src) ==
    CASE src.k = "num" ->
             IF DotPlace(src.text) # 0 THEN Node("Constant", "float", src.text, <<>>, 0)
             ELSE Node("Constant", "int", CharsOf(StripLeading(DigitsIn(src.text))), <<>>, 0)
      [] src.k = "str" -> Node("Constant", "str", src.text, <<>>, 0)
      [] src.k = "name" -> Node("Name", src.op, <<>>, <<>>, 0)
      [] src.k = "paren" -> ToAst(src.kids[1])
      [] src.k = "unary" -> Node("UnaryOp", UnaryOpClass(src.op), <<>>, <<ToAst(src.kids[1])>>, 0)
      [] src.k = "binary" ->
             Node("BinOp", BinOpClass(src.op), <<>>, <<ToAst(src.kids[1]), ToAst(src.kids[2])>>, 0)
      [] src.k = "call" ->
             Node("Call", src.op, <<>>, [i \in 1..Len(src.kids) |-> ToAst(src.kids[i])], src.kw)
      [] src.k = "list" ->
             Node("List", "", <<>>, [i \in 1..Len(src.kids) |-> ToAst(src.kids[i])], 0)
      [] src.k = "compare" ->
             Node("Compare", src.op, <<>>, <<ToAst(src.kids[1]), ToAst(src.kids[2])>>, 0)

(***************************************************************************)
(* core.py                                                                 *)
(***************************************************************************)
EvalSettings(precision, rounding, max_depth) ==
    [precision |-> precision, rounding |-> rounding, max_depth |-> max_depth]
DefaultSettings == EvalSettings(DEFAULT_PRECISION, ROUND_HALF_EVEN, DEFAULT_MAX_DEPTH)

SAFE_CONSTS ==
    [pi |-> Dec(0, <<3,1,4,1,5,9,2,6,5,3,5,8,9,7,9,3,2,3,8,4,6,2,6,4,3,3,8,3,2,7,9,5,0,2,8,8,4,1,9,7,1,6,9,3,9,9,3,7,5,1,0>>, -50),
     e |-> Dec(0, <<2,7,1,8,2,8,1,8,2,8,4,5,9,0,4,5,2,3,5,3,6,0,2,8,7,4,7,1,3,5,2,6,6,2,4,9,7,7,5,7,2,4,7,0,9,3,6,9,9,9,5>>, -50),
     tau |-> Dec(0, <<6,2,8,3,1,8,5,3,0,7,1,7,9,5,8,6,4,7,6,9,2,5,2,8,6,7,6,6,5,5,9,0,0,5,7,6,8,3,9,4,3,3,8,7,9,8,7,5,0,2,1>>, -50)]

\* set_precision: the new global context, or the error.
set_precision(ctx, prec) ==
    IF prec < MIN_PRECISION
    THEN [ok |-> FALSE, ctx |-> ctx, exc |-> "ValueError", msg |-> "Precision must be at least 16."]
    ELSE [ok |-> TRUE, ctx |-> [ctx EXCEPT !.prec = prec], exc |-> "", msg |-> ""]

\* _to_decimal on a constant's value: int (and bool) and str go through
\* Decimal(str(n)); any other type is refused.
to_decimal(vtype, text) ==
    IF vtype \in {"int", "bool", "str"} THEN DecimalFromString(text)
    ELSE Raise("TypeError", "Unsupported literal type")

\* DecimalEvaluator.__init__: the constants, then the caller's variables.
InitVars(variables) ==
    [n \in (DOMAIN SAFE_CONSTS) \cup (DOMAIN variables) |->
        IF n \in DOMAIN variables THEN variables[n] ELSE SAFE_CONSTS[n]]

\* DecimalEvaluator._apply_unary.
apply_unary(op, val, ctx) ==
    CASE op = "UAdd" -> Ok(val)
      [] op = "USub" -> Ok(Neg(val, ctx))
      [] OTHER -> Raise("SyntaxError", "Unsupported unary operator.")

\* A faulty _apply_binop that reports a zero modulus as a division by zero.
apply_binop_one_message(a, op, b, ctx) ==
    CASE op = "Add" -> Ok(DecAdd(a, b, ctx))
      [] op = "Sub" -> Ok(DecSub(a, b, ctx))
      [] op = "Mult" -> Ok(DecMul(a, b, ctx))
      [] op = "Div" -> IF EqualsZero(b) THEN Raise("ZeroDivisionError", "Division by zero.")
                       ELSE Ok(DecDiv(a, b, ctx))
      [] op = "Mod" -> IF EqualsZero(b) THEN Raise("ZeroDivisionError", "Division by zero.")
                       ELSE DecMod(a, b, ctx)
      [] op = "Pow" -> Ok(DecPow(a, b, ctx))
      [] OTHER -> Raise("SyntaxError", "Unsupported binary operator.")

\* DecimalEvaluator._apply_binop.
apply_binop(a, op, b, ctx) ==
    CASE op = "Add" -> Ok(DecAdd(a, b, ctx))
      [] op = "Sub" -> Ok(DecSub(a, b, ctx))
      [] op = "Mult" -> Ok(DecMul(a, b, ctx))
      [] op = "Div" -> IF EqualsZero(b) THEN Raise("ZeroDivisionError", "Division by zero.")
                       ELSE Ok(DecDiv(a, b, ctx))
      [] op = "Mod" -> IF EqualsZero(b) THEN Raise("ZeroDivisionError", "Modulo by zero.")
                       ELSE DecMod(a, b, ctx)
      [] op = "Pow" -> Ok(DecPow(a, b, ctx))
      [] OTHER -> Raise("SyntaxError", "Unsupported binary operator.")

\* int(n) for a Decimal: truncation toward zero (machine-size).
IntOf(d) ==
    LET keep == Len(d.int) + d.exp
        mag == IF d.exp >= 0 THEN NatOf(d.int) * Pow10(d.exp)
               ELSE IF keep <= 0 THEN 0 ELSE NatOf(SubSeq(d.int, 1, keep))
    IN IF d.sign = 1 THEN 0 - mag ELSE mag

\* Decimal._rescale(exp, ROUND_HALF_EVEN).
Rescale(d, exp) ==
    LET digits == Len(d.int) + d.exp - exp
        src == IF digits < 0 THEN <<1>> ELSE d.int
        keep == IF digits < 0 THEN 0 ELSE digits
        nxt == src[keep + 1]
        restZero == \A i \in (keep + 2)..Len(src) : src[i] = 0
        kept == IF keep = 0 THEN <<0>> ELSE SubSeq(src, 1, keep)
        up == \/ nxt > 5
              \/ nxt = 5 /\ ~restZero
              \/ nxt = 5 /\ restZero /\ kept[Len(kept)] % 2 = 1
    IN IF IsZero(d) THEN Dec(d.sign, <<0>>, exp)
       ELSE IF d.exp >= exp THEN Dec(d.sign, d.int \o Zeros(d.exp - exp), exp)
       ELSE Dec(d.sign, IF up THEN AddNat(kept, <<1>>) ELSE kept, exp)

\* _round_decimal: x.quantize(Decimal(1).scaleb(-ndigits)).
round_decimal(x, ndigits, ctx) ==
    LET ans == Rescale(x, 0 - ndigits)
    IN IF ~IsZero(x) /\ Len(x.int) + x.exp + ndigits > ctx.prec
       THEN Raise("InvalidOperation", "quantize result has too many digits")
       ELSE IF Len(ans.int) > ctx.prec
       THEN Raise("InvalidOperation", "quantize result has too many digits")
       ELSE Ok(ans)

\* DecimalEvaluator.allowed_funcs.  sqrt, ln, log10 and exp are in the
\* whitelist; their values are the decimal module's and no expression the
\* model evaluates applies them.
allowed_funcs == {"sqrt", "ln", "log10", "exp", "abs", "round", "pow"}
Arities(fname) ==
    CASE fname \in {"sqrt", "ln", "log10", "exp", "abs"} -> {1}
      [] fname = "round" -> {1, 2}
      [] fname = "pow" -> {2}
apply_func(fname, dargs, ctx) ==
    IF Len(dargs) \notin Arities(fname) THEN Raise("TypeError", "wrong number of arguments")
    ELSE CASE fname = "abs" -> Ok(CopyAbs(dargs[1]))
           [] fname = "round" ->
                  round_decimal(dargs[1], IF Len(dargs) = 2 THEN IntOf(dargs[2]) ELSE 0, ctx)
           [] fname = "pow" -> Ok(DecPow(dargs[1], dargs[2], ctx))

\* DecimalEvaluator.__init__: the evaluator object.
DecimalEvaluator(settings, variables) == [settings |-> settings, vars |-> InitVars(variables)]

\* DecimalEvaluator._eval_node, under the active context ctx.  Operands and
\* arguments are evaluated left to right, and the first exception ends the
\* evaluation.
\* A faulty depth check that refuses the deepest level allowed.
too_deep_early(self, depth) == depth >= self.settings.max_depth
\* The depth check of _eval_node.
too_deep(self, depth) == depth > self.settings.max_depth
RECURSIVE eval_node(_, _, _, _)
eval_node(self, node, depth, ctx) ==
    LET sub(i) == eval_node(self, node.kids[i], depth + 1, ctx)
    IN IF too_deep(self, depth)
       THEN Raise("ValueError", "Expression too deeply nested.")
       ELSE CASE node.k = "Constant" -> to_decimal(node.op, node.text)
              [] node.k = "BinOp" ->
                     LET a == sub(1)
                         b == sub(2)
                     IN IF ~a.ok THEN a ELSE IF ~b.ok THEN b
                        ELSE apply_binop(a.val, node.op, b.val, ctx)
              [] node.k = "UnaryOp" ->
                     LET val == sub(1)
                     IN IF ~val.ok THEN val ELSE apply_unary(node.op, val.val, ctx)
              [] node.k = "Name" ->
                     IF node.op \in DOMAIN self.vars THEN Ok(self.vars[node.op])
                     ELSE Raise("NameError", "Unknown identifier")
              [] node.k = "Call" ->
                     IF node.kw > 0 THEN Raise("ValueError", "Keyword arguments are not supported.")
                     ELSE IF node.op \notin allowed_funcs
                     THEN Raise("NameError", "Unsupported function")
                     ELSE LET dargs == [i \in 1..Len(node.kids) |-> sub(i)]
                              bad == {i \in 1..Len(node.kids) : ~dargs[i].ok}
                          IN IF bad # {}
                             THEN dargs[CHOOSE i \in bad : \A j \in bad : i <= j]
                             ELSE apply_func(node.op,
                                      [i \in 1..Len(node.kids) |-> dargs[i].val], ctx)
              [] OTHER -> Raise("SyntaxError", "Unsupported syntax in expression.")

\* with localcontext(Context(prec=..., rounding=...)): entering saves the
\* current context and activates the new one; leaving, normally or by an
\* exception, restores the saved one.
localcontext_enter(current, settings) ==
    [saved |-> current, active |-> Context(settings.precision, settings.rounding)]
\* A faulty exit that leaves the local context active.
localcontext_exit_active(frame) == frame.active
localcontext_exit(frame) == frame.saved

\* DecimalEvaluator.eval: parse, then evaluate from depth 0, both inside
\* the local context.
eval(self, src, frame) ==
    IF src.k = "invalid" THEN Raise("SyntaxError", "invalid syntax")
    ELSE eval_node(self, ToAst(src), 0, frame.active)

\* Memory.
memory_clear == Dec(0, <<0>>, 0)
\* A faulty recall that returns the register's initial value.
memory_recall_stale(value) == Dec(0, <<0>>, 0)
memory_recall(value) == value
memory_add(value, x, ctx) == DecAdd(value, x, ctx)
memory_sub(value, x, ctx) == DecSub(value, x, ctx)

\* CalculatorEngine.format_decimal, under the current context ctx.
format_decimal(x, ctx) ==
    LET normalized == Normalize(x, ctx)
        s == FormatF(normalized)
        t == IF DotPlace(s) # 0 THEN RStrip(RStrip(s, "0"), ".") ELSE s
    IN IF t = <<>> THEN <<"0">> ELSE t

\* CalculatorEngine.evaluate: the string returned or the exception raised,
\* with the evaluator's result (val), the precision of the context the
\* arithmetic ran under (prec), and the current context afterwards (ctx).
Returned(str, evaluated, val, prec, ctx) ==
    [ok |-> TRUE, str |-> str, exc |-> "", msg |-> "",
     evaluated |-> evaluated, val |-> val, prec |-> prec, ctx |-> ctx]
Raised(exc, msg, prec, ctx) ==
    [ok |-> FALSE, str |-> <<>>, exc |-> exc, msg |-> msg,
     evaluated |-> FALSE, val |-> Dec(0, <<0>>, 0), prec |-> prec, ctx |-> ctx]
evaluate(settings, value, current, src) ==
    IF src.k = "empty" THEN Returned(<<>>, FALSE, Dec(0, <<0>>, 0), 0, current)
    ELSE LET evaluator == DecimalEvaluator(settings, [M |-> memory_recall(value)])
             frame == localcontext_enter(current, settings)
             result == eval(evaluator, src, frame)
             after == localcontext_exit(frame)
         IN IF result.ok
            THEN Returned(format_decimal(result.val, after), TRUE, result.val,
                          frame.active.prec, after)
            ELSE Raised(result.exc, result.msg, frame.active.prec, after)

(***************************************************************************)
(* Bounds of the model and the inputs the operations are called with.      *)
(***************************************************************************)
\* Memory additions and subtractions between two clears.
MaxMemOps == 2
\* Longest chain of nested calls, signs or parentheses in an expression.
MaxNest == 4
\* The max_depth of the engine built with a tight depth limit.
TightDepth == 2
\* The precision the tests build their engines with.
TEST_PRECISION == 100

Chars16 == <<"1", "2", "3", "4", "5", "6", "7", "8", "9", "0", "1", "2", "3", "4", "5", "6">>
\* A 17-digit integer literal, one digit more than the smallest precision.
Long17 == SNum(Chars16 \o <<"7">>)
N(c) == SNum(<<c>>)
Float125 == SNum(<<"1", "2", ".", "5">>)
Float12345 == SNum(<<"1", ".", "2", "3", "4", "5">>)
OneByZero == SBinary(N("1"), "/", N("0"))

RECURSIVE Chain(_, _, _)
Chain(kind, k, leaf) ==
    IF k = 0 THEN leaf
    ELSE LET inner == Chain(kind, k - 1, leaf)
         IN CASE kind = "call" -> SCall("abs", <<inner>>, 0)
              [] kind = "unary" -> SUnary("-", inner)
              [] kind = "paren" -> SParen(inner)
ChainKinds == {"call", "unary", "paren"}
\* Chains just within the tight depth limit, just beyond it, and the longest.
ChainLengths == {TightDepth, TightDepth + 1, MaxNest}
Chains == {Chain(kind, k, N("1")) : kind \in ChainKinds, k \in ChainLengths}

Dividends == {N("1"), SName("M")}
Divisors == {N("0"), N("4"), SParen(SBinary(N("1"), "-", N("1")))}
Quotients == {SBinary(a, op, b) : a \in Dividends, op \in {"/", "%"}, b \in Divisors}

Exprs ==
    {SEmpty, SInvalid,
     N("1"), Long17, Float125,
     SStr(<<"1", ".", "5">>), SStr(<<"a", "b", "c">>),
     SName("M"), SName("pi"), SName("foo"),
     SBinary(SName("M"), "*", N("2")),
     SBinary(N("1"), "/", N("7")),
     SBinary(N("2"), "**", SNum(<<"1", "0">>)),
     SBinary(N("2"), "^", SNum(<<"1", "0">>)),
     SBinary(SParen(OneByZero), "^", N("2")),
     SBinary(SName("foo"), "^", N("2")),
     SUnary("~", N("1")),
     SCall("abs", <<SUnary("-", Float125)>>, 0),
     SCall("round", <<Float12345, N("2")>>, 0),
     SCall("abs", <<N("1")>>, 1),
     SCall("foo", <<Chain("call", MaxNest, N("1"))>>, 0),
     SBinary(OneByZero, "+", Chain("call", MaxNest, N("1"))),
     SList(<<OneByZero>>),
     SCompare(N("1"), "<", N("2"))}
    \cup Quotients \cup Chains

Decimal3 == Dec(0, <<3>>, 0)
MemoryInputs == {Decimal3}
PrecisionInputs == {MIN_PRECISION - 1, MIN_PRECISION, 2 * DEFAULT_PRECISION}
SettingsChoices ==
    {DefaultSettings,
     EvalSettings(TEST_PRECISION, ROUND_HALF_EVEN, TightDepth)}

(***************************************************************************)
(* State.                                                                  *)
(*   settings     the engine's EvalSettings                                *)
(*   memory       engine.memory.value                                      *)
(*   context      the global decimal context, getcontext()                 *)
(*   last         the most recent call of the engine's client (op, with    *)
(*                the expression or the precision passed) and its outcome  *)
(*   nops         memory additions and subtractions since the last clear   *)
(*   display_var, result_var, prec_var   the window's entry, result label  *)
(*                and precision spinbox                                    *)
(*   shown        the message of the last error box                        *)
(*   raised       the exception that last escaped a callback               *)
(***************************************************************************)
VARIABLES settings, memory, context, last, nops,
          display_var, result_var, prec_var, shown, raised

vars == <<settings, memory, context, last, nops,
          display_var, result_var, prec_var, shown, raised>>
gui == <<display_var, result_var, prec_var, shown, raised>>

Call(op, expr, arg, res) == [op |-> op, expr |-> expr, arg |-> arg, res |-> res]
NoResult(ctx) == Returned(<<>>, FALSE, Dec(0, <<0>>, 0), 0, ctx)
NoException == [exc |-> "", msg |-> ""]

\* Module import and CalculatorEngine.__init__.  Line 39 of core.py names
\* the decimal module two lines before it is imported; the model takes the
\* module as loaded, with the context lines 37 and 38 set.
InitialContext == Context(DEFAULT_PRECISION, ROUND_HALF_EVEN)
Init ==
    /\ settings \in SettingsChoices
    /\ memory = Dec(0, <<0>>, 0)
    /\ context = InitialContext
    /\ last = Call("none", SEmpty, 0, NoResult(InitialContext))
    /\ nops = 0
    /\ display_var = <<>>
    /\ result_var = <<>>
    /\ prec_var = DEFAULT_PRECISION
    /\ shown = ""
    /\ raised = NoException

\* engine.evaluate(expr)
Evaluate(expr) ==
    \E res \in {evaluate(settings, memory, context, expr)} :
       /\ last' = Call("evaluate", expr, 0, res)
       /\ context' = res.ctx
       /\ UNCHANGED <<settings, memory, nops, gui>>

\* set_precision(prec)
SetPrecision(prec) ==
    \E r \in {set_precision(context, prec)} :
       /\ context' = r.ctx
       /\ last' = Call("set_precision", SEmpty, prec,
                       IF r.ok THEN NoResult(r.ctx) ELSE Raised(r.exc, r.msg, 0, r.ctx))
       /\ UNCHANGED <<settings, memory, nops, gui>>

\* engine.memory.clear()
MemoryClear ==
    /\ memory' = memory_clear
    /\ nops' = 0
    /\ last' = Call("clear", SEmpty, 0, NoResult(context))
    /\ UNCHANGED <<settings, context, gui>>

\* engine.memory.add(x)
MemoryAdd(x) ==
    /\ nops < MaxMemOps
    /\ nops' = nops + 1
    /\ memory' = memory_add(memory, x, context)
    /\ last' = Call("add", SEmpty, 0, NoResult(context))
    /\ UNCHANGED <<settings, context, gui>>

\* engine.memory.sub(x)
MemorySub(x) ==
    /\ nops < MaxMemOps
    /\ nops' = nops + 1
    /\ memory' = memory_sub(memory, x, context)
    /\ last' = Call("sub", SEmpty, 0, NoResult(context))
    /\ UNCHANGED <<settings, context, gui>>

Next ==
    \/ \E expr \in Exprs : Evaluate(expr)
    \/ \E prec \in PrecisionInputs : SetPrecision(prec)
    \/ MemoryClear
    \/ \E x \in MemoryInputs : MemoryAdd(x)
    \/ \E x \in MemoryInputs : MemorySub(x)

Spec == Init /\ [][Next]_vars

(***************************************************************************)
(* gui.py: the window, driven through its keypad and the Apply button.     *)
(* Text is inserted at the end of the entry.                               *)
(***************************************************************************)
\* Longest text typed into the entry.
MaxDisplay == 2

\* ast.parse on the text of the entry: numbers, names, and "+" as a sign or
\* as the left-associative binary operator; anything else is a syntax error.
IsNameStart(c) == c \in {"p", "i", "M"}
IsNameChar(c) == IsNameStart(c) \/ IsDigitChar(c)
DigitRunEnd(cs, i) ==
    CHOOSE j \in i..Len(cs) :
        /\ \A m \in i..j : IsDigitChar(cs[m])
        /\ j = Len(cs) \/ ~IsDigitChar(cs[j + 1])
NameRunEnd(cs, i) ==
    CHOOSE j \in i..Len(cs) :
        /\ \A m \in i..j : IsNameChar(cs[m])
        /\ j = Len(cs) \/ ~IsNameChar(cs[j + 1])
RECURSIVE Join(_)
Join(cs) == IF cs = <<>> THEN "" ELSE cs[1] \o Join(Tail(cs))
RECURSIVE Signed(_, _)
Signed(n, e) == IF n = 0 THEN e ELSE SUnary("+", Signed(n - 1, e))
RECURSIVE ParseFrom(_, _, _, _)
ParseFrom(cs, i, left, signs) ==
    IF i > Len(cs)
    THEN IF signs = 0 /\ left.k # "empty" THEN left ELSE SInvalid
    ELSE IF cs[i] = "+" THEN ParseFrom(cs, i + 1, left, signs + 1)
    ELSE IF ~IsNameChar(cs[i]) THEN SInvalid
    ELSE LET isnum == IsDigitChar(cs[i])
             j == IF isnum THEN DigitRunEnd(cs, i) ELSE NameRunEnd(cs, i)
             text == SubSeq(cs, i, j)
             atom == IF isnum THEN SNum(text) ELSE SName(Join(text))
             operand == Signed(IF left.k = "empty" THEN signs ELSE signs - 1, atom)
         IN IF isnum /\ j < Len(cs) /\ IsNameStart(cs[j + 1]) THEN SInvalid
            ELSE IF isnum /\ Len(text) > 1 /\ text[1] = "0" /\ ~AllZero(DigitsIn(text))
            THEN SInvalid
            ELSE IF left.k # "empty" /\ signs = 0 THEN SInvalid
            ELSE ParseFrom(cs, j + 1,
                           IF left.k = "empty" THEN operand ELSE SBinary(left, "+", operand),
                           0)
Parse(cs) == IF cs = <<>> THEN SEmpty ELSE ParseFrom(cs, 1, SEmpty, 0)

\* The keys pressed: "pi" stands for the key labelled with the Greek letter.
SYMBOL_MAP == [pi |-> <<"p", "i">>]
InsertKeys == {"7", "+", "pi"}
GuiPrecisionInputs == {MIN_PRECISION - 1, MIN_PRECISION}
PrecisionSetTo ==
    <<"P", "r", "e", "c", "i", "s", "i", "o", "n", " ", "s", "e", "t", " ", "t", "o", " ">>

\* CalculatorApp.__init__ and _build_ui.
GuiInit == Init /\ settings = DefaultSettings

\* _insert(s), the insertion cursor at the end.
insert(text, s) == text \o s

\* on_key for a key that inserts text.
on_key_insert(key) ==
    LET s == IF key \in DOMAIN SYMBOL_MAP THEN SYMBOL_MAP[key] ELSE <<key>>
    IN /\ Len(display_var) + Len(s) <= MaxDisplay
       /\ display_var' = insert(display_var, s)
       /\ shown' = ""
       /\ raised' = NoException
       /\ UNCHANGED <<settings, memory, context, last, nops, result_var, prec_var>>

\* on_key("=")
on_key_equals ==
    \E out \in {evaluate(settings, memory, context, Parse(display_var))} :
       /\ result_var' = IF out.ok THEN out.str ELSE result_var
       /\ shown' = IF out.ok THEN "" ELSE out.msg
       /\ context' = out.ctx
       /\ raised' = NoException
       /\ UNCHANGED <<settings, memory, last, nops, display_var, prec_var>>

\* on_key("C")
on_key_C ==
    /\ display_var' = <<>>
    /\ result_var' = <<>>
    /\ shown' = ""
    /\ raised' = NoException
    /\ UNCHANGED <<settings, memory, context, last, nops, prec_var>>

\* on_key for the backspace key.
on_key_backspace ==
    /\ display_var' = IF display_var # <<>>
                      THEN SubSeq(display_var, 1, Len(display_var) - 1) ELSE display_var
    /\ shown' = ""
    /\ raised' = NoException
    /\ UNCHANGED <<settings, memory, context, last, nops, result_var, prec_var>>

\* _current_or_result_decimal: the Decimal, or the exception it raises.
current_or_result_decimal(result, display, current) ==
    IF result # <<>> THEN DecimalFromString(result)
    ELSE LET expr == IF display # <<>> THEN display ELSE <<"0">>
             evaluator == DecimalEvaluator(DefaultSettings, <<>>)
         IN eval(evaluator, Parse(expr), localcontext_enter(current, DefaultSettings))

\* _handle_memory("MC")
handle_memory_MC ==
    /\ memory' = memory_clear
    /\ nops' = 0
    /\ result_var' = <<"0">>
    /\ shown' = ""
    /\ raised' = NoException
    /\ UNCHANGED <<settings, context, last, display_var, prec_var>>

\* _handle_memory("MR")
handle_memory_MR ==
    /\ Len(display_var) + 1 <= MaxDisplay
    /\ display_var' = insert(display_var, <<"M">>)
    /\ shown' = ""
    /\ raised' = NoException
    /\ UNCHANGED <<settings, memory, context, last, nops, result_var, prec_var>>

\* _handle_memory("M+"): an exception of _current_or_result_decimal leaves
\* the callback before memory.add.
handle_memory_Mplus ==
    /\ nops < MaxMemOps
    /\ \E val \in {current_or_result_decimal(result_var, display_var, context)} :
          /\ memory' = IF val.ok THEN memory_add(memory, val.val, context) ELSE memory
          /\ nops' = IF val.ok THEN nops + 1 ELSE nops
          /\ raised' = IF val.ok THEN NoException ELSE [exc |-> val.exc, msg |-> val.msg]
    /\ shown' = ""
    /\ UNCHANGED <<settings, context, last, display_var, result_var, prec_var>>

\* _handle_memory("M-")
handle_memory_Mminus ==
    /\ nops < MaxMemOps
    /\ \E val \in {current_or_result_decimal(result_var, display_var, context)} :
          /\ memory' = IF val.ok THEN memory_sub(memory, val.val, context) ELSE memory
          /\ nops' = IF val.ok THEN nops + 1 ELSE nops
          /\ raised' = IF val.ok THEN NoException ELSE [exc |-> val.exc, msg |-> val.msg]
    /\ shown' = ""
    /\ UNCHANGED <<settings, context, last, display_var, result_var, prec_var>>

\* apply_precision, with p in the spinbox.
apply_precision(p) ==
    \E r \in {set_precision(context, p)} :
       /\ prec_var' = p
       /\ context' = r.ctx
       /\ result_var' = IF r.ok THEN PrecisionSetTo \o CharsOf(DigitsOf(p)) ELSE result_var
       /\ shown' = IF r.ok THEN "" ELSE r.msg
       /\ raised' = NoException
       /\ UNCHANGED <<settings, memory, last, nops, display_var>>

GuiNext ==
    \/ \E key \in InsertKeys : on_key_insert(key)
    \/ on_key_equals
    \/ on_key_C
    \/ on_key_backspace
    \/ handle_memory_MC
    \/ handle_memory_MR
    \/ handle_memory_Mplus
    \/ handle_memory_Mminus
    \/ \E p \in GuiPrecisionInputs : apply_precision(p)

GuiSpec == GuiInit /\ [][GuiNext]_vars

(***************************************************************************)
(* Vocabulary of the properties.                                           *)
(***************************************************************************)
Evaluated == last.op = "evaluate"
MTimes2 == SBinary(SName("M"), "*", N("2"))
OneSeventh == SBinary(N("1"), "/", N("7"))
TooDeep(res) ==
    ~res.ok /\ res.exc = "ValueError" /\ res.msg = "Expression too deeply nested."
ArithmeticContext == Context(settings.precision, settings.rounding)

\* The depth of the deepest node of a syntax tree, the root at depth 0.
RECURSIVE Height(_)
Height(node) ==
    LET below == {Height(node.kids[i]) : i \in 1..Len(node.kids)}
    IN IF below = {} THEN 0 ELSE 1 + CHOOSE h \in below : \A g \in below : g <= h

\* The number of parentheses and calls nested round the innermost phrase.
RECURSIVE Nesting(_)
Nesting(src) ==
    LET below == {Nesting(src.kids[i]) : i \in 1..Len(src.kids)}
        inner == IF below = {} THEN 0 ELSE CHOOSE h \in below : \A g \in below : g <= h
    IN IF src.k \in {"paren", "call"} THEN 1 + inner ELSE inner

\* A phrase outside the grammar: + - * / % ** and unary + - over numbers,
\* names, calls and parentheses.
RECURSIVE HasUnsupported(_)
HasUnsupported(src) ==
    \/ src.k \in {"str", "list", "compare"}
    \/ src.k = "binary" /\ src.op \notin {"+", "-", "*", "/", "%", "**"}
    \/ src.k = "unary" /\ src.op \notin {"+", "-"}
    \/ \E i \in 1..Len(src.kids) : HasUnsupported(src.kids[i])

\* The value of a Decimal whatever its representation: the coefficient
\* without trailing zeros.
Canon(d) ==
    IF AllZero(d.int) THEN Dec(d.sign, <<0>>, 0)
    ELSE Dec(d.sign, SubSeq(d.int, 1, LastNonZero(d.int)),
             d.exp + Len(d.int) - LastNonZero(d.int))
Denotes(str, d) ==
    /\ DecimalFromString(str).ok
    /\ Canon(DecimalFromString(str).val) = Canon(d)

\* An operand of the last expression, evaluated as _eval_node evaluates it.
Operand(i) ==
    eval_node(DecimalEvaluator(settings, [M |-> memory_recall(memory)]),
              ToAst(last.expr.kids[i]), 1, ArithmeticContext)
IsIntLiteral(src) == src.k = "num" /\ DotPlace(src.text) = 0

(***************************************************************************)
(* Properties.                                                             *)
(***************************************************************************)
\* C1: the identifier M in an evaluate call denotes the memory register's
\* value at the moment of that call, whatever calls came before: "M"
\* evaluates to the register's value and returns it formatted, "M*2" to
\* twice that value, and with 3 in the register "M*2" returns "6".
C1_MemoryReadAtEachCall ==
    Evaluated =>
        /\ last.expr = SName("M") =>
               /\ last.res.ok
               /\ last.res.val = memory
               /\ last.res.str = format_decimal(memory, context)
        /\ last.expr = MTimes2 =>
               /\ last.res.ok
               /\ last.res.val = DecMul(memory, Dec(0, <<2>>, 0), ArithmeticContext)
        /\ last.expr = MTimes2 /\ memory = Decimal3 => last.res.str = <<"6">>
\* add(3), then evaluate("M*2") returns "6".
C1_Witness ==
    /\ Evaluated
    /\ last.expr = MTimes2
    /\ memory = Decimal3
    /\ nops = 1
    /\ last.res.str = <<"6">>

\* C2: set_precision(n) fails with ValueError for n < 16 and otherwise makes
\* n the global precision, and every evaluation of an engine with the
\* default settings then computes under the global precision, so that 1/7
\* carries that many significant digits.
C2_GlobalPrecisionGovernsArithmetic ==
    /\ last.op = "set_precision" =>
           IF last.arg >= MIN_PRECISION THEN last.res.ok /\ context.prec = last.arg
           ELSE ~last.res.ok /\ last.res.exc = "ValueError"
    /\ Evaluated /\ settings = DefaultSettings /\ last.expr.k \notin {"empty", "invalid"} =>
           last.res.prec = context.prec
    /\ Evaluated /\ settings = DefaultSettings /\ last.expr = OneSeventh =>
           last.res.ok /\ Len(last.res.val.int) = context.prec
\* set_precision(2000), then evaluate("1/7") on a default engine: the
\* quotient has DEFAULT_PRECISION digits.
C2_Witness ==
    /\ Evaluated
    /\ settings = DefaultSettings
    /\ context.prec = 2 * DEFAULT_PRECISION
    /\ last.expr = OneSeventh
    /\ Len(last.res.val.int) = DEFAULT_PRECISION

C4_UnsupportedIsSyntaxError ==
    Evaluated /\ HasUnsupported(last.expr) =>
        ~last.res.ok /\ last.res.exc = "SyntaxError"
\* "(1/0)^2" raises ZeroDivisionError.
C4_Witness ==
    /\ Evaluated
    /\ last.expr = SBinary(SParen(OneByZero), "^", N("2"))
    /\ last.res.exc = "ZeroDivisionError"

C6_DecimalPointLiteralAccepted ==
    Evaluated =>
        /\ last.expr.k = "num" /\ DotPlace(last.expr.text) # 0 =>
               /\ last.res.ok
               /\ Denotes(last.res.str, DecimalFromString(last.expr.text).val)
        /\ last.expr = SCall("abs", <<SUnary("-", Float125)>>, 0) =>
               last.res.ok /\ last.res.str = <<"1", "2", ".", "5">>
        /\ last.expr = SCall("round", <<Float12345, N("2")>>, 0) =>
               last.res.ok /\ last.res.str = <<"1", ".", "2", "3">>
\* "12.5" raises TypeError.
C6_Witness ==
    /\ Evaluated
    /\ last.expr = Float125
    /\ last.res.exc = "TypeError"

\* C7: the string evaluate returns denotes exactly the evaluator's result,
\* whatever the global precision.
C7_FormattingLossless ==
    Evaluated /\ last.res.ok /\ last.res.evaluated =>
        Denotes(last.res.str, last.res.val)
\* A 17-digit integer returned with global precision 16.
C7_Witness ==
    /\ Evaluated
    /\ last.expr = Long17
    /\ context.prec = MIN_PRECISION
    /\ last.res.ok
    /\ last.res.str = SubSeq(Chars16, 1, 15) \o <<"7", "0">>
    /\ last.res.val = DecimalFromString(Chars16 \o <<"7">>).val

\* C8: when both operands of a / b or a % b evaluate and b is zero, evaluate
\* raises ZeroDivisionError with "Division by zero." for / and "Modulo by
\* zero." for %, and returns nothing; when b is not zero neither is raised.
C8_DivisionByZero ==
    Evaluated /\ last.expr.k = "binary" /\ last.expr.op \in {"/", "%"}
              /\ Operand(1).ok /\ Operand(2).ok =>
        IF EqualsZero(Operand(2).val)
        THEN /\ ~last.res.ok
             /\ last.res.str = <<>>
             /\ last.res.exc = "ZeroDivisionError"
             /\ last.res.msg = IF last.expr.op = "/" THEN "Division by zero."
                               ELSE "Modulo by zero."
        ELSE last.res.exc # "ZeroDivisionError"
\* "M%(1-1)" with 3 in memory.
C8_Witness ==
    /\ Evaluated
    /\ last.expr = SBinary(SName("M"), "%", SParen(SBinary(N("1"), "-", N("1"))))
    /\ memory = Decimal3
    /\ last.res.msg = "Modulo by zero."

\* C9: for integer literals a and b, "a^b" returns what "a**b" returns, a
\* raised to the power b.
C9_CaretIsPower ==
    Evaluated /\ last.expr.k = "binary" /\ last.expr.op = "^"
              /\ IsIntLiteral(last.expr.kids[1]) /\ IsIntLiteral(last.expr.kids[2]) =>
        /\ last.res.ok
        /\ last.res = evaluate(settings, memory, context,
                               SBinary(last.expr.kids[1], "**", last.expr.kids[2]))
\* "2^10" raises SyntaxError while "2**10" returns "1024".
C9_Witness ==
    /\ Evaluated
    /\ last.expr = SBinary(N("2"), "^", SNum(<<"1", "0">>))
    /\ last.res.exc = "SyntaxError"
    /\ evaluate(settings, memory, context, SBinary(N("2"), "**", SNum(<<"1", "0">>))).str
           = <<"1", "0", "2", "4">>

\* C10: the result label is empty or a decimal numeral, and no exception
\* escapes a callback of the window.
C10_ResultIsNumeralAndNoCallbackRaises ==
    /\ result_var = <<>> \/ DecimalFromString(result_var).ok
    /\ raised = NoException
\* Apply, then M+: Decimal("Precision set to 16") raises InvalidOperation.
C10_Witness ==
    /\ result_var = PrecisionSetTo \o <<"1", "6">>
    /\ raised.exc = "InvalidOperation"

====
